---- MODULE Spec2Model ----
(***************************************************************************)
(* Transaction-API: the ingestion pipeline (Database.upload_csv), the      *)
(* aggregation query (Database.get_summary), the reset operation           *)
(* (Database.clear) of src/app/storage.py and the route handlers of        *)
(* src/app/main.py that map their outcomes to HTTP status codes.           *)
(*                                                                         *)
(* Representation of values                                                *)
(*   - a CSV row is a record of five cells plus `nulls`, the set of the    *)
(*     columns whose cell is empty;                                        *)
(*   - a CSV timestamp cell is <<day>> (date only) or <<day, time>>; the   *)
(*     text stored by SQLite is <<day, time>> and a YYYY-MM-DD query bound *)
(*     is <<day>>: text comparison is lexicographic comparison of these    *)
(*     sequences (a proper prefix is smaller);                             *)
(*   - a CSV amount is an integer number of thousandths; a stored amount   *)
(*     (the float32 the parser produced, kept exactly by SQLite's REAL) is *)
(*     an integer number of 2^-17, the float32 spacing on [64, 128);       *)
(*   - a returned mean_amount (rounded to 2 decimals) is a number of       *)
(*     hundredths.                                                         *)
(***************************************************************************)
EXTENDS Integers, Sequences, FiniteSets, TLC

VARIABLES
    db,            \* committed content of table `transactions`
    txn,           \* per call: rows inserted on its connection, not committed
    conn,          \* per call: "closed" or "open"
    pc,            \* per call: position inside upload_csv
    rows_before,   \* per call: local rows_before
    header,        \* per call: column names of the reader
    first_chunk,   \* per call: local first_chunk
    nchunks,       \* per call: chunks the reader has delivered
    input,         \* per call: history, CSV rows read so far (forgotten on failure)
    cond,          \* per call: history, what the input and the engine held against it
    rolled_back,   \* per call: connection.rollback() was executed
    db_before,     \* per call: history, committed table when the call began
    resp,          \* per call: HTTP response of POST /upload
    summ,          \* response of the last GET /summary
    clr            \* response of the last DELETE /clear with no insert since

vars == <<db, txn, conn, pc, rows_before, header, first_chunk, nchunks, input,
          cond, rolled_back, db_before, resp, summ, clr>>

-----------------------------------------------------------------------------
(* Bounds *)

MaxChunks == 2      \* chunks one uploaded stream may hold
MaxDay == 4         \* query bounds range over days 1..MaxDay

(* Program constants *)

\* Database.CHUNK_SIZE, the rows of one chunk: 10000 in the source, scaled
\* to 2 so that an upload of a few rows spans several chunks
CHUNK_SIZE == 2
\* significand width of dtype 'float32'
FLOAT32_MANTISSA == 24
\* a stored amount counts units of 2^-UNIT_BITS: the spacing of float32 on
\* [64, 128), of which the spacing on [128, 256) is a multiple
UNIT_BITS == 17

Calls == {1, 2}

-----------------------------------------------------------------------------
(* Arithmetic *)

RECURSIVE Pow2(_)
Pow2(k) == IF k = 0 THEN 1 ELSE 2 * Pow2(k - 1)

\* num / den rounded to the nearest integer, ties to even (num >= 0, den > 0)
RoundHalfEven(num, den) ==
    LET q == num \div den
        r == num % den
    IN  IF 2 * r < den THEN q
        ELSE IF 2 * r > den THEN q + 1
        ELSE IF q % 2 = 0 THEN q ELSE q + 1

\* binary exponent e of m/1000: 2^e <= m/1000 < 2^(e+1), for m/1000 >= 64
RECURSIVE Exponent(_, _)
Exponent(m, e) == IF m < 1000 * Pow2(e + 1) THEN e ELSE Exponent(m, e + 1)

\* dtype 'float32': the float32 nearest to the decimal m/1000, in units of
\* 2^-UNIT_BITS.  n is the 24-bit significand: m/1000 / 2^(e-23) rounded,
\* computed as m * 2^(20-e) / 125.  Defined for m = 0 and |m|/1000 in [64, 256).
ToFloat32Abs(m) ==
    LET e == Exponent(m, FLOAT32_MANTISSA - 1 - UNIT_BITS)
        n == RoundHalfEven(m * Pow2(FLOAT32_MANTISSA - 4 - e), 125)
    IN  n * Pow2(e - FLOAT32_MANTISSA + 1 + UNIT_BITS)

ToFloat32(m) ==
    IF m = 0 THEN 0
    ELSE IF m < 0 THEN 0 - ToFloat32Abs(0 - m)
    ELSE ToFloat32Abs(m)

-----------------------------------------------------------------------------
(* Input data: CSV cells, rows and headers *)

Ids == {"T1", "T2", "T3"}

expected_columns ==
    <<"transaction_id", "user_id", "product_id", "timestamp", "transaction_amount">>

\* headers an uploaded file may carry: the expected one, one without a
\* timestamp column, the expected names in another order, one name missing
Headers ==
    { expected_columns,
      <<"wrong", "headers", "here">>,
      <<"transaction_id", "product_id", "user_id", "timestamp", "transaction_amount">>,
      <<"transaction_id", "user_id", "timestamp", "transaction_amount">> }

Row(id, user, product, ts, amount, nulls) ==
    [transaction_id |-> id, user_id |-> user, product_id |-> product,
     timestamp |-> ts, transaction_amount |-> amount, nulls |-> nulls]

\* well-formed rows: (user, timestamp cell, amount in thousandths)
Profiles ==
    { <<1, <<1, 1>>, 99990>>,      \* 99.99
      <<1, <<2>>, 150500>>,        \* 150.50, date-only timestamp
      <<1, <<3, 1>>, 100005>>,     \* 100.005
      <<2, <<1, 1>>, 200000>> }    \* 200.00

GoodRows == { Row(id, p[1], 1, p[2], p[3], {}) : id \in Ids, p \in Profiles }

\* rows violating one or several of the integrity checks
BadRows ==
    { Row("T1", 1, 1, <<1, 1>>, 0, {"transaction_amount"}),   \* empty amount
      Row("", 1, 1, <<1, 1>>, 99990, {"transaction_id"}),     \* empty id
      Row("T1", 0, 1, <<1, 1>>, 99990, {"user_id"}),          \* empty user_id
      Row("T1", 1, 1, <<1, 1>>, 0, {}),                       \* amount 0.00
      Row("T1", 1, 1, <<1, 1>>, -100000, {}),                 \* amount -100.00
      Row("T1", 0, 1, <<1, 1>>, 99990, {}),                   \* user_id 0
      Row("T1", 1, -1, <<1, 1>>, 99990, {}),                  \* product_id -1
      Row("T1", 1, 1, <<>>, -100000, {"timestamp"}),          \* empty timestamp and amount -100.00
      Row("T1", 0, 1, <<1, 1>>, 0, {}) }                      \* amount 0.00 and user_id 0

CsvRows == GoodRows \cup BadRows

\* the rows one read of the stream may deliver: up to CHUNK_SIZE rows
ChunkRows == UNION { [1..n -> CsvRows] : n \in 0..CHUNK_SIZE }

Users == {1, 2}
QueryDates == { <<d>> : d \in 1..MaxDay }

-----------------------------------------------------------------------------
(* pandas.read_csv: typed columns of one chunk *)

Columns(h) == { h[i] : i \in 1..Len(h) }

\* parse_dates=['timestamp']: a date-only cell becomes midnight of that day
ParseDates(cell) ==
    IF Len(cell) = 0 THEN [day |-> 0, time |-> 0]
    ELSE IF Len(cell) = 1 THEN [day |-> cell[1], time |-> 0]
    ELSE [day |-> cell[1], time |-> cell[2]]

\* one DataFrame row: dtype str / int32 / int32 / datetime64 / float32
ParseRow(r) ==
    [transaction_id |-> r.transaction_id,
     user_id |-> r.user_id,
     product_id |-> r.product_id,
     timestamp |-> ParseDates(r.timestamp),
     transaction_amount |-> ToFloat32(r.transaction_amount),
     nulls |-> r.nulls]

\* the typed row of every CSV row of the model, computed once
Parsed == [r \in CsvRows |-> ParseRow(r)]

ParseChunk(rows) == [i \in 1..Len(rows) |-> Parsed[rows[i]]]

\* an int32 column cannot hold a missing value: the reader raises ValueError
IntegerNA(h, rows) ==
    \E i \in 1..Len(rows) :
        \E col \in {"user_id", "product_id"} :
            col \in Columns(h) /\ col \in rows[i].nulls

-----------------------------------------------------------------------------
(* Database.upload_csv: validation of one chunk, lines 68-91 *)

NoException == [cls |-> "", text |-> ""]
Exception(cls, text) == [cls |-> cls, text |-> text]

\* chunk.isnull().any().any()
HasNull(chunk) == \E i \in 1..Len(chunk) : chunk[i].nulls # {}

\* (chunk['transaction_amount'] <= 0).any(); NaN <= 0 is False
HasNonPositiveAmount(chunk) ==
    \E i \in 1..Len(chunk) :
        /\ "transaction_amount" \notin chunk[i].nulls
        /\ chunk[i].transaction_amount <= 0

\* mutant: only user_id is checked
HasNonPositiveId_UserOnly(chunk) ==
    \E i \in 1..Len(chunk) : chunk[i].user_id <= 0

\* (chunk['user_id'] <= 0).any() or (chunk['product_id'] <= 0).any()
HasNonPositiveId(chunk) ==
    \/ \E i \in 1..Len(chunk) : chunk[i].user_id <= 0
    \/ \E i \in 1..Len(chunk) : chunk[i].product_id <= 0

\* mutant: the column check of the first chunk is left out
ValidateChunk_SkipsColumns(first, h, chunk) ==
    IF HasNull(chunk)
        THEN Exception("ValueError", "CSV contains null/empty values")
    ELSE IF HasNonPositiveAmount(chunk)
        THEN Exception("ValueError", "Transaction amounts must be positive")
    ELSE IF HasNonPositiveId(chunk)
        THEN Exception("ValueError", "User ID and Product ID must be positive")
    ELSE NoException

\* mutant: the amount check runs before the null check
ValidateChunk_AmountFirst(first, h, chunk) ==
    IF first /\ h # expected_columns
        THEN Exception("ValueError", "Invalid columns. Expected")
    ELSE IF HasNonPositiveAmount(chunk)
        THEN Exception("ValueError", "Transaction amounts must be positive")
    ELSE IF HasNull(chunk)
        THEN Exception("ValueError", "CSV contains null/empty values")
    ELSE IF HasNonPositiveId(chunk)
        THEN Exception("ValueError", "User ID and Product ID must be positive")
    ELSE NoException

\* the checks of the loop body in their order; the exception they raise
ValidateChunk(first, h, chunk) ==
    IF first /\ h # expected_columns
        THEN Exception("ValueError", "Invalid columns. Expected")
    ELSE IF HasNull(chunk)
        THEN Exception("ValueError", "CSV contains null/empty values")
    ELSE IF HasNonPositiveAmount(chunk)
        THEN Exception("ValueError", "Transaction amounts must be positive")
    ELSE IF HasNonPositiveId(chunk)
        THEN Exception("ValueError", "User ID and Product ID must be positive")
    ELSE NoException

\* next(chunks): the reader tokenizes and converts CHUNK_SIZE lines
ReadChunk(h, rows, malformed) ==
    IF malformed THEN Exception("ParserError", "Error tokenizing data")
    ELSE IF IntegerNA(h, rows)
        THEN Exception("ValueError", "Integer column has NA values")
    ELSE NoException

-----------------------------------------------------------------------------
(* chunk.to_sql('transactions', connection, if_exists='append'), lines 93-98 *)

\* sqlite3's adapter for datetime: isoformat(" "), always with a time of day
AdaptDatetimeIso(ts) == <<ts.day, ts.time>>

\* the table row written for one DataFrame row
Stored(r) ==
    [transaction_id |-> r.transaction_id,
     user_id |-> r.user_id,
     product_id |-> r.product_id,
     timestamp |-> AdaptDatetimeIso(r.timestamp),
     transaction_amount |-> r.transaction_amount]

StoredRows(chunk) == { Stored(chunk[i]) : i \in 1..Len(chunk) }

TableIds(table) == { r.transaction_id : r \in table }

\* transaction_id TEXT PRIMARY KEY: an INSERT of a present id raises
\* sqlite3.IntegrityError
UniqueViolation(table, chunk) ==
    \/ \E i \in 1..Len(chunk) : chunk[i].transaction_id \in TableIds(table)
    \/ \E i, j \in 1..Len(chunk) :
           i # j /\ chunk[i].transaction_id = chunk[j].transaction_id

\* the exception to_sql raises, if any (ioerror: the engine fails to write)
ToSqlException(table, chunk, ioerror) ==
    IF Len(chunk) = 0 THEN NoException
    ELSE IF ioerror THEN Exception("OperationalError", "disk I/O error")
    ELSE IF UniqueViolation(table, chunk)
        THEN Exception("IntegrityError", "UNIQUE constraint failed")
    ELSE NoException

\* pandas runs the INSERTs of one to_sql call in run_transaction(), which
\* commits on the connection it was given when they succeed
ToSqlCommits == TRUE

-----------------------------------------------------------------------------
(* the except clauses of upload_csv, lines 109-121, and the routes of main.py *)

\* mutant: no except clause for pd.errors.EmptyDataError
Reraise_EmptyUnhandled(exc) ==
    IF exc.cls = "ParserError"
        THEN [cls |-> "ValueError", text |-> <<"Invalid CSV format: ", exc.text>>]
    ELSE [cls |-> "ValueError", text |-> <<"ERROR: ", exc.text>>]

\* what upload_csv raises for an exception of its try block
Reraise(exc) ==
    IF exc.cls = "EmptyDataError"
        THEN [cls |-> "ValueError", text |-> <<"CSV file is empty">>]
    ELSE IF exc.cls = "ParserError"
        THEN [cls |-> "ValueError", text |-> <<"Invalid CSV format: ", exc.text>>]
    ELSE [cls |-> "ValueError", text |-> <<"ERROR: ", exc.text>>]

\* only the last except clause calls connection.rollback()
RollsBack(exc) == exc.cls \notin {"EmptyDataError", "ParserError"}

NoResponse == [status |-> 0, detail |-> <<>>, rows_processed |-> 0]

\* POST /upload: the response for what upload_csv raised
upload(raised) ==
    IF raised.cls = "ValueError"
        THEN [status |-> 400, detail |-> <<"Invalid columns. ">> \o raised.text,
              rows_processed |-> 0]
    ELSE [status |-> 500, detail |-> <<"Server error: ">> \o raised.text,
          rows_processed |-> 0]

\* mutant: the count before the upload is not subtracted
RowsInserted_NoBaseline(rows_after, before) == rows_after

\* rows_inserted = rows_after - rows_before
RowsInserted(rows_after, before) == rows_after - before

UploadResponse(rows_inserted) ==
    [status |-> 200, detail |-> <<"Transactions uploaded successfully">>,
     rows_processed |-> rows_inserted]

-----------------------------------------------------------------------------
(* Database.get_summary, lines 138-178, and GET /summary *)

\* comparison of two texts, character by character; a proper prefix is smaller
RECURSIVE LexLeq(_, _)
LexLeq(a, b) ==
    IF Len(a) = 0 THEN TRUE
    ELSE IF Len(b) = 0 THEN FALSE
    ELSE IF a[1] < b[1] THEN TRUE
    ELSE IF a[1] > b[1] THEN FALSE
    ELSE LexLeq(Tail(a), Tail(b))

\* mutant: the WHERE clause does not filter by user
Matching_AnyUser(table, user_id, start_date, end_date) ==
    { r \in table : /\ LexLeq(start_date, r.timestamp)
                    /\ LexLeq(r.timestamp, end_date) }

\* WHERE user_id = ? AND timestamp >= ? AND timestamp <= ?
Matching(table, user_id, start_date, end_date) ==
    { r \in table : /\ r.user_id = user_id
                    /\ LexLeq(start_date, r.timestamp)
                    /\ LexLeq(r.timestamp, end_date) }

\* the aggregates fold over the matching rows, one row at a time
RECURSIVE SqlMax(_)
SqlMax(rows) ==
    LET r == CHOOSE x \in rows : TRUE
        rest == rows \ {r}
    IN  IF rest = {} THEN r.transaction_amount
        ELSE LET m == SqlMax(rest)
             IN  IF r.transaction_amount > m THEN r.transaction_amount ELSE m

RECURSIVE SqlMin(_)
SqlMin(rows) ==
    LET r == CHOOSE x \in rows : TRUE
        rest == rows \ {r}
    IN  IF rest = {} THEN r.transaction_amount
        ELSE LET m == SqlMin(rest)
             IN  IF r.transaction_amount < m THEN r.transaction_amount ELSE m

RECURSIVE SqlSum(_)
SqlSum(rows) ==
    IF rows = {} THEN 0
    ELSE LET r == CHOOSE x \in rows : TRUE
         IN  r.transaction_amount + SqlSum(rows \ {r})

\* round(AVG(transaction_amount), 2): sum / count in units of 2^-UNIT_BITS,
\* as hundredths: 100 * sum / (count * 2^17) = 25 * sum / (count * 2^15).
\* AVG and round work on doubles; the model computes the exact quotient.
RoundedMean(sum, count) ==
    RoundHalfEven(25 * sum, count * Pow2(UNIT_BITS - 2))

NoSummary ==
    [status |-> 0, called |-> FALSE, user_id |-> 0, start_date |-> <<>>,
     end_date |-> <<>>, transaction_count |-> 0, max_amount |-> 0,
     min_amount |-> 0, mean_amount |-> 0]

\* mutant: the check for no transaction is left out; the aggregates of an
\* empty selection are NULL, returned here as 0
GetSummary_NoCheck(table, user_id, start_date, end_date) ==
    LET rows == Matching(table, user_id, start_date, end_date)
        count == Cardinality(rows)
    IN  IF count = 0
        THEN [raised |-> FALSE, transaction_count |-> 0, max_amount |-> 0,
              min_amount |-> 0, mean_amount |-> 0]
        ELSE [raised |-> FALSE, transaction_count |-> count,
              max_amount |-> SqlMax(rows), min_amount |-> SqlMin(rows),
              mean_amount |-> RoundedMean(SqlSum(rows), count)]

\* what get_summary returns, or raised = TRUE for its ValueError
GetSummary(table, user_id, start_date, end_date) ==
    LET rows == Matching(table, user_id, start_date, end_date)
        count == Cardinality(rows)
    IN  IF count = 0
        THEN [raised |-> TRUE, transaction_count |-> 0, max_amount |-> 0,
              min_amount |-> 0, mean_amount |-> 0]
        ELSE [raised |-> FALSE, transaction_count |-> count,
              max_amount |-> SqlMax(rows), min_amount |-> SqlMin(rows),
              mean_amount |-> RoundedMean(SqlSum(rows), count)]

\* mutant: the route does not compare start_date with end_date
summary_NoDateCheck(table, user_id, start_date, end_date) ==
    LET q == [NoSummary EXCEPT !.user_id = user_id, !.start_date = start_date,
                               !.end_date = end_date]
        r == GetSummary(table, user_id, start_date, end_date)
    IN  IF r.raised
        THEN [q EXCEPT !.status = 404, !.called = TRUE]
        ELSE [q EXCEPT !.status = 200, !.called = TRUE,
                       !.transaction_count = r.transaction_count,
                       !.max_amount = r.max_amount,
                       !.min_amount = r.min_amount,
                       !.mean_amount = r.mean_amount]

\* GET /summary/{user_id}: the date-order check, then get_summary
summary(table, user_id, start_date, end_date) ==
    LET q == [NoSummary EXCEPT !.user_id = user_id, !.start_date = start_date,
                               !.end_date = end_date]
    IN  IF start_date # end_date /\ LexLeq(end_date, start_date)
        THEN [q EXCEPT !.status = 400]
        ELSE LET r == GetSummary(table, user_id, start_date, end_date)
             IN  IF r.raised
                 THEN [q EXCEPT !.status = 404, !.called = TRUE]
                 ELSE [q EXCEPT !.status = 200, !.called = TRUE,
                                !.transaction_count = r.transaction_count,
                                !.max_amount = r.max_amount,
                                !.min_amount = r.min_amount,
                                !.mean_amount = r.mean_amount]

-----------------------------------------------------------------------------
(* Database.clear, lines 181-197 *)

NoClear == [status |-> 0, success |-> FALSE, rows_deleted |-> 0]

\* mutant: the DELETE spares one row
DeleteAll_KeepsOne(table) ==
    IF table = {} THEN {} ELSE {CHOOSE r \in table : TRUE}

\* DELETE FROM transactions
DeleteAll(table) == {}

\* mutant: rowcount of a DELETE without WHERE is reported as 0
RowCount_Truncated(table) == 0

\* cursor.rowcount of the DELETE
RowCount(table) == Cardinality(table)

-----------------------------------------------------------------------------
(* State machine *)

Init ==
    /\ db = {}
    /\ txn = [c \in Calls |-> {}]
    /\ conn = [c \in Calls |-> "closed"]
    /\ pc = [c \in Calls |-> "idle"]
    /\ rows_before = [c \in Calls |-> 0]
    /\ header = [c \in Calls |-> <<>>]
    /\ first_chunk = [c \in Calls |-> TRUE]
    /\ nchunks = [c \in Calls |-> 0]
    /\ input = [c \in Calls |-> <<>>]
    /\ cond = [c \in Calls |-> {}]
    /\ rolled_back = [c \in Calls |-> FALSE]
    /\ db_before = [c \in Calls |-> {}]
    /\ resp = [c \in Calls |-> NoResponse]
    /\ summ = NoSummary
    /\ clr = NoClear

\* mutant: a connection sees only its own inserts
View_OwnInserts(c) == txn[c]

\* the rows a connection sees: the committed table and its own inserts
View(c) == db \cup txn[c]

\* history: the conditions a CSV row meets (empty cell, empty cell of an int32
\* column, amount <= 0, id <= 0)
RowConditions(r) ==
    (IF r.nulls # {} THEN {"null"} ELSE {})
    \cup (IF r.nulls \cap {"user_id", "product_id"} # {} THEN {"null_id"} ELSE {})
    \cup (IF "transaction_amount" \notin r.nulls /\ r.transaction_amount <= 0
          THEN {"amount"} ELSE {})
    \cup (IF \/ "user_id" \notin r.nulls /\ r.user_id <= 0
             \/ "product_id" \notin r.nulls /\ r.product_id <= 0
          THEN {"id"} ELSE {})

\* history: the conditions of the rows of one read, given the ids seen before
ReadConditions(seen, rows, env) ==
    IF env = "malformed" THEN {"malformed"}
    ELSE UNION { RowConditions(rows[i]) : i \in 1..Len(rows) }
         \cup (IF \/ \E i \in 1..Len(rows) : rows[i].transaction_id \in seen
                  \/ \E i, j \in 1..Len(rows) :
                         i < j /\ rows[i].transaction_id = rows[j].transaction_id
               THEN {"duplicate"} ELSE {})

\* a new POST /upload of caller c: its locals start afresh
Begin(c) ==
    /\ pc[c] = "idle"
    /\ header' = [header EXCEPT ![c] = <<>>]
    /\ first_chunk' = [first_chunk EXCEPT ![c] = TRUE]
    /\ nchunks' = [nchunks EXCEPT ![c] = 0]
    /\ input' = [input EXCEPT ![c] = <<>>]
    /\ rolled_back' = [rolled_back EXCEPT ![c] = FALSE]
    /\ db_before' = [db_before EXCEPT ![c] = db]
    /\ summ' = NoSummary

\* main.py 27-28: the file name does not end in .csv
UploadNotCsv(c) ==
    /\ Begin(c)
    /\ pc' = [pc EXCEPT ![c] = "done"]
    /\ rows_before' = [rows_before EXCEPT ![c] = 0]
    /\ cond' = [cond EXCEPT ![c] = {"notcsv"}]
    /\ resp' = [resp EXCEPT ![c] =
                  [status |-> 400, detail |-> <<"File must be CSV">>,
                   rows_processed |-> 0]]
    /\ UNCHANGED <<db, txn, conn, clr>>

\* storage.py 44-50: connect and count the rows before the upload
Connect(c) ==
    /\ Begin(c)
    /\ conn' = [conn EXCEPT ![c] = "open"]
    /\ rows_before' = [rows_before EXCEPT ![c] = Cardinality(View(c))]
    /\ pc' = [pc EXCEPT ![c] = "read_csv"]
    /\ cond' = [cond EXCEPT ![c] = {}]
    /\ resp' = [resp EXCEPT ![c] = NoResponse]
    /\ UNCHANGED <<db, txn, clr>>

\* storage.py 49: the count query raises, outside the try block: nothing
\* closes the connection and the route answers 500
ConnectFails(c) ==
    /\ Begin(c)
    /\ conn' = [conn EXCEPT ![c] = "open"]
    /\ rows_before' = [rows_before EXCEPT ![c] = 0]
    /\ pc' = [pc EXCEPT ![c] = "done"]
    /\ cond' = [cond EXCEPT ![c] = {"ioerror"}]
    /\ resp' = [resp EXCEPT ![c] =
                  upload([cls |-> "OperationalError", text |-> <<"disk I/O error">>])]
    /\ UNCHANGED <<db, txn, clr>>

\* an exception inside the try block: the except clause, then finally
Raise(c, exc) ==
    /\ txn' = [txn EXCEPT ![c] = {}]
    /\ rolled_back' = [rolled_back EXCEPT ![c] = RollsBack(exc)]
    /\ conn' = [conn EXCEPT ![c] = "closed"]
    /\ pc' = [pc EXCEPT ![c] = "done"]
    /\ resp' = [resp EXCEPT ![c] = upload(Reraise(exc))]
    /\ input' = [input EXCEPT ![c] = <<>>]

\* storage.py 54-66: pd.read_csv builds the reader and reads the header line
ReadCsv(c) ==
    /\ pc[c] = "read_csv"
    /\ \/ /\ Raise(c, Exception("EmptyDataError", "No columns to parse from file"))
          /\ cond' = [cond EXCEPT ![c] = {"empty"}]
          /\ UNCHANGED header
       \/ \E h \in Headers :
             /\ header' = [header EXCEPT ![c] = h]
             /\ cond' = [cond EXCEPT ![c] =
                           IF h # expected_columns THEN {"header"} ELSE {}]
             /\ IF "timestamp" \notin Columns(h)
                THEN Raise(c, Exception("ValueError",
                                        "Missing column provided to 'parse_dates'"))
                ELSE /\ pc' = [pc EXCEPT ![c] = "chunks"]
                     /\ UNCHANGED <<txn, rolled_back, conn, resp, input>>
    /\ UNCHANGED <<db, rows_before, first_chunk, nchunks, db_before, summ, clr>>

\* what one read finds: rows ("ok"), rows the engine then fails to write
\* ("ioerror"), or lines the tokenizer cannot split into rows ("malformed")
Environment == {"ok", "malformed", "ioerror"}

\* storage.py 68-98: the body of the loop for the rows of one read
ProcessRows(c, rows, env) ==
        /\ env = "malformed" => Len(rows) = 0
        /\ env = "ioerror" => Len(rows) = 1
        /\ (env = "ok" /\ nchunks[c] > 0) => Len(rows) >= 1
        /\ nchunks' = [nchunks EXCEPT ![c] = @ + 1]
        /\ LET chunk == ParseChunk(rows)
               read == ReadChunk(header[c], rows, env = "malformed")
               checked == IF read.cls # "" THEN read
                          ELSE ValidateChunk(first_chunk[c], header[c], chunk)
               exc == IF checked.cls # "" THEN checked
                      ELSE ToSqlException(View(c), chunk, env = "ioerror")
               seen == TableIds(db_before[c])
                       \cup { input[c][i].transaction_id : i \in 1..Len(input[c]) }
           IN  /\ cond' = [cond EXCEPT ![c] =
                             @ \cup ReadConditions(seen, rows, env)
                               \cup (IF env = "ioerror" /\ checked.cls = ""
                                     THEN {"ioerror"} ELSE {})]
               /\ IF exc.cls # ""
                  THEN /\ Raise(c, exc)
                       /\ UNCHANGED <<db, first_chunk, clr>>
                  ELSE /\ first_chunk' = [first_chunk EXCEPT ![c] = FALSE]
                       /\ input' = [input EXCEPT ![c] = @ \o rows]
                       /\ IF ToSqlCommits
                          THEN /\ db' = View(c) \cup StoredRows(chunk)
                               /\ txn' = [txn EXCEPT ![c] = {}]
                          ELSE /\ db' = db
                               /\ txn' = [txn EXCEPT ![c] = @ \cup StoredRows(chunk)]
                       /\ clr' = IF Len(chunk) > 0 THEN NoClear ELSE clr
                       /\ UNCHANGED <<rolled_back, conn, pc, resp>>
        /\ UNCHANGED <<rows_before, header, db_before, summ>>

\* the loop goes on while the reader has lines: a further chunk follows only
\* a full one
MoreChunks(c) ==
    /\ pc[c] = "chunks"
    /\ nchunks[c] > 0 => /\ nchunks[c] < MaxChunks
                         /\ Len(input[c]) = nchunks[c] * CHUNK_SIZE

\* storage.py 68-98: one iteration of the loop over the chunks
ProcessChunk(c) ==
    /\ MoreChunks(c)
    /\ \E rows \in ChunkRows, env \in Environment : ProcessRows(c, rows, env)

\* storage.py 100-107 and 123-135: the reader is exhausted
Finish(c) ==
    /\ pc[c] = "chunks"
    /\ nchunks[c] >= 1
    /\ LET rows_after == Cardinality(View(c))
       IN  resp' = [resp EXCEPT ![c] =
                      UploadResponse(RowsInserted(rows_after, rows_before[c]))]
    /\ db' = View(c)
    /\ txn' = [txn EXCEPT ![c] = {}]
    /\ conn' = [conn EXCEPT ![c] = "closed"]
    /\ pc' = [pc EXCEPT ![c] = "done"]
    /\ UNCHANGED <<rows_before, header, first_chunk, nchunks, input, cond,
                   rolled_back, db_before, summ, clr>>

\* the route returns the response: the caller may send its next request
Return(c) ==
    /\ pc[c] = "done"
    /\ pc' = [pc EXCEPT ![c] = "idle"]
    /\ conn' = [conn EXCEPT ![c] = "closed"]
    /\ rows_before' = [rows_before EXCEPT ![c] = 0]
    /\ header' = [header EXCEPT ![c] = <<>>]
    /\ first_chunk' = [first_chunk EXCEPT ![c] = TRUE]
    /\ nchunks' = [nchunks EXCEPT ![c] = 0]
    /\ input' = [input EXCEPT ![c] = <<>>]
    /\ cond' = [cond EXCEPT ![c] = {}]
    /\ rolled_back' = [rolled_back EXCEPT ![c] = FALSE]
    /\ db_before' = [db_before EXCEPT ![c] = {}]
    /\ resp' = [resp EXCEPT ![c] = NoResponse]
    /\ UNCHANGED <<db, txn, summ, clr>>

\* GET /summary/{user_id}?start_date=..&end_date=..
Summary ==
    \E user_id \in Users, start_date \in QueryDates, end_date \in QueryDates :
        /\ summ' = summary(db, user_id, start_date, end_date)
        /\ UNCHANGED <<db, txn, conn, pc, rows_before, header, first_chunk, nchunks,
                       input, cond, rolled_back, db_before, resp, clr>>

\* DELETE /clear
Clear ==
    /\ db' = DeleteAll(db)
    /\ clr' = [status |-> 200, success |-> TRUE, rows_deleted |-> RowCount(db)]
    /\ summ' = NoSummary
    /\ UNCHANGED <<txn, conn, pc, rows_before, header, first_chunk, nchunks,
                   input, cond, rolled_back, db_before, resp>>

\* one request at a time: uploads of caller 1, summaries and clears
Quiet == \A c \in Calls : pc[c] = "idle"

Next ==
    \/ UploadNotCsv(1)
    \/ Connect(1)
    \/ ConnectFails(1)
    \/ ReadCsv(1)
    \/ ProcessChunk(1)
    \/ Finish(1)
    \/ Return(1)
    \/ (Quiet /\ Summary)
    \/ (Quiet /\ Clear)

Spec == Init /\ [][Next]_vars

\* Concurrent callers.  Every call opens its own connection on the file
\* transactions.db (storage.py 45, 140, 183), so calls served by separate
\* worker processes of the application interleave at the statements that
\* reach the file: the count query, each to_sql (one transaction of the
\* engine), the final count and the queries of get_summary and clear.  Each
\* caller sends one upload; the uploads carry well-formed rows of one user
\* under two ids, and the summaries ask for that user.
ConcurrentIds == {"T1", "T2"}

ConcurrentRows == { Row(id, 1, 1, <<1, 1>>, 99990, {}) : id \in ConcurrentIds }

ConcurrentChunkRows == UNION { [1..n -> ConcurrentRows] : n \in 0..CHUNK_SIZE }

ProcessChunkConcurrent(c) ==
    /\ MoreChunks(c)
    /\ \E rows \in ConcurrentChunkRows : ProcessRows(c, rows, "ok")

\* GET /summary/1 over the days of the uploaded rows
SummaryConcurrent ==
    /\ summ' = summary(db, 1, <<1>>, <<2>>)
    /\ UNCHANGED <<db, txn, conn, pc, rows_before, header, first_chunk, nchunks,
                   input, cond, rolled_back, db_before, resp, clr>>

NextConcurrent ==
    \/ \E c \in Calls : Connect(c)
    \/ \E c \in Calls : ReadCsv(c)
    \/ \E c \in Calls : ProcessChunkConcurrent(c)
    \/ \E c \in Calls : Finish(c)
    \/ SummaryConcurrent
    \/ Clear

SpecConcurrent == Init /\ [][NextConcurrent]_vars

-----------------------------------------------------------------------------
(* Properties.  Caller 1 issues the uploads of Spec; a property of an      *)
(* upload is read in the state where its response is ready (pc = "done").  *)

Answered(c) == pc[c] = "done"

IntegrityConditions == {"null", "amount", "id"}

\* a text a is at most a text b: a is a prefix of b, or a is smaller at the
\* first place where they differ
TextLeq(a, b) ==
    \/ /\ Len(a) <= Len(b)
       /\ \A k \in 1..Len(a) : a[k] = b[k]
    \/ \E k \in 1..Len(a) :
           /\ k <= Len(b)
           /\ a[k] < b[k]
           /\ \A j \in 1..(k - 1) : a[j] = b[j]

\* the stored records the last summary request asks about
Asked ==
    { r \in db : /\ r.user_id = summ.user_id
                 /\ TextLeq(summ.start_date, r.timestamp)
                 /\ TextLeq(r.timestamp, summ.end_date) }

\* the amount of the record of Asked with this id, 0 if there is none
AskedAmount(id) ==
    IF \E r \in Asked : r.transaction_id = id
    THEN (CHOOSE r \in Asked : r.transaction_id = id).transaction_amount
    ELSE 0

AskedTotal == AskedAmount("T1") + AskedAmount("T2") + AskedAmount("T3")

\* C1: an upload that read a null cell, an amount <= 0 or an id <= 0 in any
\* of its chunks is answered 400 and leaves the table as it was before the
\* call.  (Stated as in the claim; the code violates it.)
C1_IntegrityViolationRollsBack ==
    \A c \in Calls :
        (Answered(c) /\ cond[c] \cap IntegrityConditions # {})
            => /\ resp[c].status = 400
               /\ db = db_before[c]

\* C2: an upload with the expected header whose N rows are well formed and
\* carry ids unique among themselves and against the table succeeds, reports
\* rows_processed = N and leaves the table with exactly N more records, one
\* per input row, whatever the number of chunks.
C2_ValidUploadInsertsAll ==
    \A c \in Calls :
        (Answered(c) /\ cond[c] = {})
            => /\ resp[c].status = 200
               /\ resp[c].rows_processed = Len(input[c])
               /\ db_before[c] \subseteq db
               /\ Cardinality(db) = Cardinality(db_before[c]) + Len(input[c])
               /\ \A i \in 1..Len(input[c]) :
                      \E r \in db \ db_before[c] :
                          /\ r.transaction_id = input[c][i].transaction_id
                          /\ r.user_id = input[c][i].user_id
                          /\ r.product_id = input[c][i].product_id
                          /\ r.timestamp[1] = input[c][i].timestamp[1]
                          /\ r.transaction_amount
                                 = ToFloat32(input[c][i].transaction_amount)

C2_Witness ==
    /\ Answered(1) /\ cond[1] = {}
    /\ nchunks[1] = 2
    /\ Len(input[1]) = CHUNK_SIZE + 1
    /\ resp[1].rows_processed = CHUNK_SIZE + 1

\* C3: an upload whose header is not the expected column sequence is
\* answered 400 with the "Invalid columns." detail, and the table is as it
\* was before the call.
C3_HeaderMismatchRejected ==
    \A c \in Calls :
        (Answered(c) /\ "header" \in cond[c])
            => /\ resp[c].status = 400
               /\ resp[c].detail[1] = "Invalid columns. "
               /\ db = db_before[c]
               /\ txn[c] = {}

C3_Witness ==
    /\ Answered(1) /\ "header" \in cond[1]
    /\ Columns(header[1]) = Columns(expected_columns)
    /\ cond[1] = {"header"}
    /\ nchunks[1] = 1
    /\ db_before[1] # {}
    /\ resp[1].status = 400

\* C4: a successful summary reports the number of stored records of the
\* user with start_date <= timestamp <= end_date, the largest and smallest
\* amount among exactly those records, and their mean rounded to hundredths
\* (within half a hundredth of the exact mean).
C4_SummaryAggregates ==
    summ.status = 200 =>
        LET n == Cardinality(Asked)
            d == 25 * AskedTotal - summ.mean_amount * n * Pow2(UNIT_BITS - 2)
        IN  /\ summ.transaction_count = n
            /\ \E r \in Asked : r.transaction_amount = summ.max_amount
            /\ \E r \in Asked : r.transaction_amount = summ.min_amount
            /\ \A r \in Asked : /\ r.transaction_amount <= summ.max_amount
                                /\ r.transaction_amount >= summ.min_amount
            /\ 2 * d <= n * Pow2(UNIT_BITS - 2)
            /\ 2 * d >= 0 - n * Pow2(UNIT_BITS - 2)

C4_Witness ==
    /\ summ.status = 200
    /\ summ.transaction_count = 2
    /\ summ.max_amount # summ.min_amount
    /\ \E r \in db : r.user_id # summ.user_id
    /\ Cardinality(db) = 3

\* C5: get_summary raises its ValueError (404) exactly when no stored record
\* of the user lies in the range, and otherwise answers 200.
C5_NotFoundIffNoMatch ==
    summ.called =>
        /\ summ.status \in {200, 404}
        /\ (summ.status = 404) <=> (Asked = {})

C5_Witness ==
    /\ summ.called
    /\ summ.status = 404
    /\ \E r \in db : r.user_id = summ.user_id

\* C6: the upload of a zero-byte stream is answered 400 with the empty-file
\* reason, and the table is as it was before the call.
C6_EmptyFileRejected ==
    \A c \in Calls :
        (Answered(c) /\ "empty" \in cond[c])
            => /\ resp[c].status = 400
               /\ resp[c].detail = <<"Invalid columns. ", "CSV file is empty">>
               /\ db = db_before[c]

C6_Witness ==
    /\ Answered(1) /\ "empty" \in cond[1]
    /\ db_before[1] # {}
    /\ resp[1].status = 400

\* C7: a successful summary has min_amount <= mean_amount <= max_amount,
\* mean_amount being the rounded value returned.  (Stated as in the claim;
\* the code violates it.)  Amounts are in 2^-17, the mean in hundredths:
\* a / 2^17 <= h / 100 is 25 * a <= h * 2^15.
C7_MeanBetweenMinAndMax ==
    summ.status = 200 =>
        /\ 25 * summ.min_amount <= summ.mean_amount * Pow2(UNIT_BITS - 2)
        /\ summ.mean_amount * Pow2(UNIT_BITS - 2) <= 25 * summ.max_amount

\* C8: after a clear with no insert since, every get_summary call is
\* answered NotFound.
C8_SummaryAfterClearNotFound ==
    (clr.status = 200 /\ summ.called) => summ.status = 404

C8_Witness ==
    /\ clr.status = 200
    /\ clr.rows_deleted > 0
    /\ summ.called
    /\ summ.status = 404

C10_StorageErrorIs500 ==
    \A c \in Calls :
        (Answered(c) /\ "ioerror" \in cond[c]) => resp[c].status = 500

\* C11: in every reachable state the stored records carry pairwise distinct
\* transaction_ids, user_id > 0, product_id > 0, transaction_amount > 0 and
\* no empty field (an empty id is "", an empty timestamp is day 0).
C11_StoredRecordsValid ==
    /\ \A r, s \in db : r.transaction_id = s.transaction_id => r = s
    /\ \A r \in db : /\ r.transaction_id # ""
                     /\ r.user_id > 0
                     /\ r.product_id > 0
                     /\ r.transaction_amount > 0
                     /\ Len(r.timestamp) = 2
                     /\ r.timestamp[1] >= 1

C11_Witness ==
    /\ Answered(1)
    /\ cond[1] \cap IntegrityConditions # {}
    /\ Cardinality(db) >= 2
    /\ db # db_before[1]

\* C12: a summary request whose start_date is greater than its end_date is
\* answered 400 without get_summary being called; get_summary is only ever
\* called with start_date <= end_date.
C12_StartAfterEndRejected ==
    /\ (summ.status # 0 /\ ~TextLeq(summ.start_date, summ.end_date))
           => (summ.status = 400 /\ ~summ.called)
    /\ summ.called => TextLeq(summ.start_date, summ.end_date)

C12_Witness ==
    /\ summ.status = 400
    /\ ~summ.called
    /\ \E r \in db : /\ r.user_id = summ.user_id
                     /\ TextLeq(summ.end_date, r.timestamp)
                     /\ TextLeq(r.timestamp, summ.start_date)

\* the table rows of the chunks a call has appended so far
Appended(c) == StoredRows(ParseChunk(input[c]))

\* C13: no row appended by a call is committed before its last chunk has
\* been appended: whenever the reader delivers a further chunk to a call (so
\* the chunks before it were not the last), none of the rows the call has
\* appended is in the committed table, where a get_summary on another
\* connection would count it.  (Stated as in the claim; the code violates it.)
C13_NoCommitBeforeLastChunk ==
    [][\A c \in Calls :
          (pc[c] = "chunks" /\ nchunks[c] >= 1 /\ nchunks'[c] = nchunks[c] + 1)
              => Appended(c) \cap db = {}]_vars

\* C14: an upload that fails after a chunk of it has been appended, whatever
\* the failure (integrity violation, malformed lines, storage error), has
\* executed connection.rollback() and leaves the table as it was before the
\* call.  (Stated as in the claim; the code violates it.)
C14_FailureAfterAppendRollsBack ==
    \A c \in Calls :
        (Answered(c) /\ resp[c].status # 200 /\ nchunks[c] >= 2)
            => /\ rolled_back[c]
               /\ db = db_before[c]

\* C15: when a call is answered, the connection it opened is closed.
\* (Stated as in the claim; the code violates it.)
C15_ConnectionsClosed ==
    \A c \in Calls : Answered(c) => conn[c] = "closed"

\* C16: a successful upload reports as rows_processed the number of rows it
\* inserted itself, also when other uploads and clears run between its two
\* counts.  (Stated as in the claim; the code violates it.)
C16_RowsProcessedOwnInserts ==
    \A c \in Calls :
        (Answered(c) /\ resp[c].status = 200)
            => resp[c].rows_processed = Len(input[c])

\* C17: get_summary counts every stored record of the user whose day lies
\* between the day start_date and the day end_date, both included.
\* (Stated as in the claim; the code violates it.)
C17_RangeInclusive ==
    summ.called =>
        summ.transaction_count =
            Cardinality({ r \in db : /\ r.user_id = summ.user_id
                                     /\ summ.start_date[1] <= r.timestamp[1]
                                     /\ r.timestamp[1] <= summ.end_date[1] })

\* C18: an upload of well-formed rows holding a transaction_id that is
\* stored already or occurs twice in the file fails and leaves the table as
\* it was before the call.  (Stated as in the claim; the code violates it.)
C18_DuplicateIdFailsWhole ==
    \A c \in Calls :
        (Answered(c) /\ cond[c] = {"duplicate"})
            => /\ resp[c].status # 200
               /\ db = db_before[c]

\* the reason an answered upload reports: the message of the exception
Reason(c) == resp[c].detail[Len(resp[c].detail)]

\* an upload with the expected header that failed on a chunk violating one
\* of the integrity checks
FailedIntegrity(c) ==
    /\ Answered(c)
    /\ "header" \notin cond[c]
    /\ cond[c] \cap IntegrityConditions # {}

C20_RecordsImmutable ==
    /\ [][\A c \in Calls :
             (pc[c] # "idle" \/ pc'[c] # "idle") => db \subseteq db']_vars
    /\ [][(summ' # summ /\ summ'.status # 0) => db' = db]_vars

C20_Witness ==
    /\ Answered(1)
    /\ resp[1].status = 400
    /\ db_before[1] # {}
    /\ db_before[1] \subseteq db
    /\ db # db_before[1]

====
